---- MODULE Spec2Model ----
(***************************************************************************)
(* beep_maker: waveform generators, envelope shaping, the sound catalog,   *)
(* the WAV writer and the command line (generate, generate-all).           *)
(*                                                                         *)
(* Samples, frequencies, durations and millisecond arguments are exact     *)
(* rationals <<numerator, denominator>> (denominator > 0, lowest terms);   *)
(* <<0, 0>> stands for the float NaN.  numpy arrays live in a heap (a      *)
(* sequence indexed by array id) so that copies, aliases and in-place      *)
(* updates are distinguishable.                                            *)
(***************************************************************************)
EXTENDS Integers, Sequences, FiniteSets, TLC

VARIABLES heap, call, fs, written, cli, workers, catalog

vars == <<heap, call, fs, written, cli, workers, catalog>>

----------------------------------------------------------------------------
(* Bounds of the exploration *)

\* longest caller-supplied array
MaxLen == 5

\* resolution of the sine approximation: phases are cut to 1/PhaseSteps turn
PhaseSteps == 16

\* commands invoked one after the other on one output directory
MaxRuns == 2

\* input/output failures of the operating system in one behaviour
MaxFaults == 2

\* identities generated and encoded in parallel
NumWorkers == 3

----------------------------------------------------------------------------
(* src/config/constants.py *)

SAMPLE_RATE == 16000
BIT_DEPTH == 16
CHANNELS == 1
MAX_AMPLITUDE == 32767
\* seconds, as the rationals 0.20 and 0.05
MAX_DURATION_SEC == <<1, 5>>
MIN_DURATION_SEC == <<1, 20>>

SoundType == {"ok", "ng", "warn", "crit", "moo", "mew", "scan_ok", "scan_ng"}

----------------------------------------------------------------------------
(* Exact arithmetic standing for Python / numpy float arithmetic *)

Abs(x) == IF x < 0 THEN -x ELSE x
Min(a, b) == IF a < b THEN a ELSE b
Max(a, b) == IF a > b THEN a ELSE b

RECURSIVE GCD(_, _)
GCD(a, b) == IF b = 0 THEN a ELSE GCD(b, a % b)

\* the rational n/d in lowest terms
Q(n, d) ==
  LET g == GCD(Abs(n), Abs(d))
      s == IF d < 0 THEN -1 ELSE 1
  IN <<(s * n) \div g, (s * d) \div g>>

QInt(n) == <<n, 1>>
NaN == <<0, 0>>
IsNaN(a) == a[2] = 0

QMul(a, b) ==
  IF IsNaN(a) \/ IsNaN(b) THEN NaN
  ELSE LET g1 == GCD(Abs(a[1]), b[2])
           g2 == GCD(Abs(b[1]), a[2])
       IN Q((a[1] \div g1) * (b[1] \div g2), (a[2] \div g2) * (b[2] \div g1))

QAdd(a, b) ==
  IF IsNaN(a) \/ IsNaN(b) THEN NaN
  ELSE LET g == GCD(a[2], b[2])
       IN Q(a[1] * (b[2] \div g) + b[1] * (a[2] \div g), (a[2] \div g) * b[2])

QNeg(a) == <<-a[1], a[2]>>
QSub(a, b) == QAdd(a, QNeg(b))
\* a / b for b # 0
QDiv(a, b) == QMul(a, Q(b[2], b[1]))

\* comparisons are false on NaN, as in IEEE arithmetic
QLt(a, b) == ~IsNaN(a) /\ ~IsNaN(b) /\ a[1] * b[2] < b[1] * a[2]
QLe(a, b) == ~IsNaN(a) /\ ~IsNaN(b) /\ a[1] * b[2] <= b[1] * a[2]

Floor(a) == a[1] \div a[2]
\* Python int(x): truncation toward zero
Trunc(a) == IF a[1] >= 0 THEN a[1] \div a[2] ELSE -((-a[1]) \div a[2])
\* x % 1.0
Frac(a) == QSub(a, QInt(Floor(a)))

\* Python round(x): to nearest, ties to even
Round(a) ==
  LET f == Floor(a)
      twice == Floor(QMul(QInt(2), Frac(a)))
  IN IF twice = 0 THEN f
     ELSE IF Frac(a) = Q(1, 2) THEN (IF f % 2 = 0 THEN f ELSE f + 1)
     ELSE f + 1

\* np.sin(2*pi*x), x in turns.  The phase is cut to a multiple of
\* 1/PhaseSteps turn and the half wave is Bhaskara's rational approximation
\* 16y(1-y)/(5-4y(1-y)), y in [0,1] half turns: it is 0 at 0, 1 at a quarter
\* turn and stays within [-1, 1].
sin(x) ==
  IF IsNaN(x) THEN NaN
  ELSE LET k == Floor(QMul(Frac(x), QInt(PhaseSteps)))
           neg == 2 * k >= PhaseSteps
           a == IF neg THEN 2 * k - PhaseSteps ELSE 2 * k
           b == PhaseSteps
           v == Q(16 * a * (b - a), 5 * b * b - 4 * a * (b - a))
       IN IF neg THEN QNeg(v) ELSE v

\* np.linspace(start, stop, num, endpoint): num samples, the first is start;
\* with endpoint the last is stop (for num > 1), for num = 1 it is <<start>>
linspace(start, stop, num, endpoint) ==
  LET div == IF endpoint THEN num - 1 ELSE num
  IN [i \in 1..num |->
        IF div = 0 THEN start
        ELSE QAdd(start, QMul(Q(i - 1, div), QSub(stop, start)))]

zeros(n) == [i \in 1..n |-> QInt(0)]

\* results of a call: a returned value or a raised exception
Return(v) == [err |-> "none", val |-> v]
Raise(kind) == [err |-> kind, val |-> <<>>]

----------------------------------------------------------------------------
(* src/generator/waveforms.py *)

\* int(SAMPLE_RATE * duration), rounded instead of truncated
num_samples_rounded(duration) == Round(QMul(QInt(SAMPLE_RATE), duration))

\* num_samples = int(SAMPLE_RATE * duration)
num_samples_of(duration) == Trunc(QMul(QInt(SAMPLE_RATE), duration))

\* t = np.linspace(0, duration, num_samples, endpoint=False)
time_points(duration) ==
  linspace(QInt(0), duration, num_samples_of(duration), FALSE)

generate_sine_wave(frequency, duration) ==
  IF QLe(frequency, QInt(0)) THEN Raise("ValueError")
  ELSE IF QLe(duration, QInt(0)) THEN Raise("ValueError")
  ELSE LET t == time_points(duration)
       IN Return([i \in 1..Len(t) |-> sin(QMul(frequency, t[i]))])

\* the duty check with the end points let through
duty_ok_closed(duty) == QLe(QInt(0), duty) /\ QLe(duty, QInt(1))

\* 0 < duty < 1
duty_ok(duty) == QLt(QInt(0), duty) /\ QLt(duty, QInt(1))

\* the comparison of the square wave with the duty itself counted as high
square_level_closed(phase, duty) ==
  IF QLe(phase, duty) THEN QInt(1) ELSE QInt(-1)

\* np.where(phase < duty, 1.0, -1.0), for one sample
square_level(phase, duty) == IF QLt(phase, duty) THEN QInt(1) ELSE QInt(-1)

generate_square_wave(frequency, duration, duty) ==
  IF QLe(frequency, QInt(0)) THEN Raise("ValueError")
  ELSE IF QLe(duration, QInt(0)) THEN Raise("ValueError")
  ELSE IF ~duty_ok(duty) THEN Raise("ValueError")
  ELSE LET t == time_points(duration)
           phase == [i \in 1..Len(t) |-> Frac(QMul(frequency, t[i]))]
       IN Return([i \in 1..Len(t) |-> square_level(phase[i], duty)])

generate_sawtooth_wave(frequency, duration) ==
  IF QLe(frequency, QInt(0)) THEN Raise("ValueError")
  ELSE IF QLe(duration, QInt(0)) THEN Raise("ValueError")
  ELSE LET t == time_points(duration)
           phase == [i \in 1..Len(t) |-> Frac(QMul(frequency, t[i]))]
       IN Return([i \in 1..Len(t) |->
                    QSub(QMul(QInt(2), phase[i]), QInt(1))])

\* np.log(freq_ratio), by the Pade approximant 2(r-1)/(r+1); it is 0 exactly
\* when freq_ratio = 1, as the logarithm is
log(r) == QDiv(QMul(QInt(2), QSub(r, QInt(1))), QAdd(r, QInt(1)))

\* the phase of the sweep, in turns (phase / (2*pi))
sweep_phase(start_freq, end_freq, duration, logarithmic, t) ==
  IF logarithmic
  THEN LET freq_ratio == QDiv(end_freq, start_freq)
           L == log(freq_ratio)
           x == QDiv(t, duration)
           \* freq_ratio ** (t / duration) - 1, to second order in L
           growth == QAdd(QMul(x, L),
                          QMul(Q(1, 2), QMul(QMul(x, x), QMul(L, L))))
       IN IF L = QInt(0)
          \* 2*pi*start_freq*duration / 0.0 is inf, and inf * 0.0 is NaN
          THEN NaN
          ELSE QMul(QDiv(QMul(start_freq, duration), L), growth)
  ELSE LET freq_slope == QDiv(QSub(end_freq, start_freq), duration)
       IN QAdd(QMul(start_freq, t),
               QMul(QMul(Q(1, 2), freq_slope), QMul(t, t)))

generate_sweep(start_freq, end_freq, duration, logarithmic) ==
  IF QLe(start_freq, QInt(0)) THEN Raise("ValueError")
  ELSE IF QLe(end_freq, QInt(0)) THEN Raise("ValueError")
  ELSE IF QLe(duration, QInt(0)) THEN Raise("ValueError")
  ELSE LET t == time_points(duration)
       IN Return([i \in 1..Len(t) |->
                    sin(sweep_phase(start_freq, end_freq, duration,
                                    logarithmic, t[i]))])

----------------------------------------------------------------------------
(* src/generator/envelope.py *)

\* results of a call on the heap h: the heap after it, the id of the
\* returned array (0 when the call raised) and the exception
HReturn(h, id) == [heap |-> h, ret |-> id, err |-> "none"]
HRaise(h, kind) == [heap |-> h, ret |-> 0, err |-> kind]

\* a freshly built array enters the heap under a new id
Alloc(h, arr) == HReturn(Append(h, arr), Len(h) + 1)

\* result = samples, the same array under a second name
np_alias(h, samples) == [heap |-> h, id |-> samples]

\* result = samples.copy()
np_copy(h, samples) == [heap |-> Append(h, h[samples]), id |-> Len(h) + 1]

\* int(SAMPLE_RATE * ms / 1000), rounded instead of truncated
ms_to_samples_rounded(ms) ==
  Round(QDiv(QMul(QInt(SAMPLE_RATE), ms), QInt(1000)))

\* int(SAMPLE_RATE * ms / 1000)
ms_to_samples(ms) == Trunc(QDiv(QMul(QInt(SAMPLE_RATE), ms), QInt(1000)))

\* arr[lo:hi] *= curve, in place (lo, hi are 0-based slice bounds)
imul_slice(arr, lo, hi, curve) ==
  [i \in 1..Len(arr) |->
     IF lo < i /\ i <= hi THEN QMul(arr[i], curve[i - lo]) ELSE arr[i]]

\* envelope[lo:hi] = curve
set_slice(arr, lo, hi, curve) ==
  [i \in 1..Len(arr) |-> IF lo < i /\ i <= hi THEN curve[i - lo] ELSE arr[i]]

\* fade_in_curve = np.linspace(0, 1, fade_in_samples)
fade_in_curve(fade_in_samples) ==
  linspace(QInt(0), QInt(1), fade_in_samples, TRUE)

\* fade_out_curve = np.linspace(1, 0, fade_out_samples)
fade_out_curve(fade_out_samples) ==
  linspace(QInt(1), QInt(0), fade_out_samples, TRUE)

\* the fade length without the cap at half the signal
fade_samples_uncapped(ms, num_samples) == ms_to_samples(ms)

\* fade_samples = int(SAMPLE_RATE * ms / 1000);
\* fade_samples = min(fade_samples, num_samples // 2)
fade_samples_of(ms, num_samples) ==
  Min(ms_to_samples(ms), num_samples \div 2)

apply_fade(h, samples, fade_in_ms, fade_out_ms) ==
  LET c == np_copy(h, samples)
      result == c.id
      num_samples == Len(c.heap[result])
      fade_in_samples == fade_samples_of(fade_in_ms, num_samples)
      fade_out_samples == fade_samples_of(fade_out_ms, num_samples)
      h1 == IF fade_in_samples > 0
            THEN [c.heap EXCEPT ![result] =
                    imul_slice(@, 0, fade_in_samples,
                               fade_in_curve(fade_in_samples))]
            ELSE c.heap
      h2 == IF fade_out_samples > 0
            THEN [h1 EXCEPT ![result] =
                    imul_slice(@, num_samples - fade_out_samples, num_samples,
                               fade_out_curve(fade_out_samples))]
            ELSE h1
  IN HReturn(h2, result)

\* the release ramp with its end points exchanged
release_curve_swapped(sustain_level, n) ==
  linspace(QInt(0), sustain_level, n, TRUE)

\* np.linspace(sustain_level, 0, end - pos)
release_curve(sustain_level, n) == linspace(sustain_level, QInt(0), n, TRUE)

\* the sustain count without the release taken off
sustain_samples_whole(num_samples, attack_samples, decay_samples, release_samples) ==
  Max(0, num_samples - attack_samples - decay_samples)

\* sustain_samples = max(0, num_samples - attack - decay - release)
sustain_samples_of(num_samples, attack_samples, decay_samples, release_samples) ==
  Max(0, num_samples - attack_samples - decay_samples - release_samples)

\* the slices envelope[pos:end] the four phases of apply_adsr assign, as
\* <<pos, end>>; a phase whose branch is not taken assigns <<pos, pos>>
adsr_ranges(num_samples, attack_samples, decay_samples, release_samples) ==
  LET sustain_samples ==
        sustain_samples_of(num_samples, attack_samples, decay_samples,
                           release_samples)
      pos0 == 0
      \* Attack
      doA == attack_samples > 0 /\ pos0 < num_samples
      pos1 == IF doA THEN Min(pos0 + attack_samples, num_samples) ELSE pos0
      \* Decay
      doD == decay_samples > 0 /\ pos1 < num_samples
      pos2 == IF doD THEN Min(pos1 + decay_samples, num_samples) ELSE pos1
      \* Sustain
      doS == sustain_samples > 0 /\ pos2 < num_samples
      pos3 == IF doS THEN Min(pos2 + sustain_samples, num_samples) ELSE pos2
      \* Release: end = num_samples
      doR == release_samples > 0 /\ pos3 < num_samples
      pos4 == IF doR THEN num_samples ELSE pos3
  IN [attack |-> <<pos0, pos1>>, decay |-> <<pos1, pos2>>,
      sustain |-> <<pos2, pos3>>, release |-> <<pos3, pos4>>]

\* the envelope of apply_adsr over num_samples samples
adsr_envelope(num_samples, attack_samples, decay_samples, sustain_level, release_samples) ==
  LET rg == adsr_ranges(num_samples, attack_samples, decay_samples,
                        release_samples)
      env0 == zeros(num_samples)
      \* Attack: 0 -> 1
      env1 == set_slice(env0, rg.attack[1], rg.attack[2],
                        linspace(QInt(0), QInt(1),
                                 rg.attack[2] - rg.attack[1], TRUE))
      \* Decay: 1 -> sustain_level
      env2 == set_slice(env1, rg.decay[1], rg.decay[2],
                        linspace(QInt(1), sustain_level,
                                 rg.decay[2] - rg.decay[1], TRUE))
      \* Sustain
      env3 == set_slice(env2, rg.sustain[1], rg.sustain[2],
                        [i \in 1..(rg.sustain[2] - rg.sustain[1]) |->
                           sustain_level])
      \* Release: sustain_level -> 0
      env4 == set_slice(env3, rg.release[1], rg.release[2],
                        release_curve(sustain_level,
                                      rg.release[2] - rg.release[1]))
  IN env4

\* the sustain check with the end points rejected
sustain_ok_open(sustain_level) ==
  QLt(QInt(0), sustain_level) /\ QLt(sustain_level, QInt(1))

\* 0 <= sustain_level <= 1
sustain_ok(sustain_level) ==
  QLe(QInt(0), sustain_level) /\ QLe(sustain_level, QInt(1))

apply_adsr(h, samples, attack_ms, decay_ms, sustain_level, release_ms) ==
  IF ~sustain_ok(sustain_level) THEN HRaise(h, "ValueError")
  ELSE LET c == np_copy(h, samples)
           result == c.id
           num_samples == Len(c.heap[result])
           envelope == adsr_envelope(num_samples, ms_to_samples(attack_ms),
                                     ms_to_samples(decay_ms), sustain_level,
                                     ms_to_samples(release_ms))
       IN HReturn([c.heap EXCEPT ![result] =
                     imul_slice(@, 0, num_samples, envelope)], result)

\* np.concatenate(parts)
RECURSIVE np_concatenate(_)
np_concatenate(parts) ==
  IF parts = <<>> THEN <<>>
  ELSE Head(parts) \o np_concatenate(Tail(parts))

\* the loop of concatenate_with_silence over segments[i..], 1-based i
RECURSIVE result_parts(_, _, _)
result_parts(segments, silence, i) ==
  IF i > Len(segments) THEN <<>>
  ELSE <<segments[i]>>
       \o (IF i - 1 < Len(segments) - 1 THEN <<silence>> ELSE <<>>)
       \o result_parts(segments, silence, i + 1)

\* segments is the list of array ids the caller passes
concatenate_with_silence(h, segments, silence_ms) ==
  LET arrays == [i \in 1..Len(segments) |-> h[segments[i]]]
  IN IF segments = <<>> THEN Alloc(h, <<>>)
     ELSE IF QLe(silence_ms, QInt(0)) THEN Alloc(h, np_concatenate(arrays))
     ELSE LET silence == zeros(ms_to_samples(silence_ms))
          IN Alloc(h, np_concatenate(result_parts(arrays, silence, 1)))

----------------------------------------------------------------------------
(* src/generator/sounds.py *)

\* wave = <generator call>; return apply_fade(wave, fade_in_ms, fade_out_ms)
faded(wave, fade_in_ms, fade_out_ms) ==
  IF wave.err # "none" THEN wave
  ELSE LET r == apply_fade(<<wave.val>>, 1, QInt(fade_in_ms), QInt(fade_out_ms))
       IN Return(r.heap[r.ret])

\* beep = <sine>; beep = apply_fade(beep, 3, 3);
\* return concatenate_with_silence([beep] * count, silence_ms)
beeps(wave, count, silence_ms) ==
  IF wave.err # "none" THEN wave
  ELSE LET f == apply_fade(<<wave.val>>, 1, QInt(3), QInt(3))
           c == concatenate_with_silence(f.heap, [i \in 1..count |-> f.ret],
                                         QInt(silence_ms))
       IN Return(c.heap[c.ret])

_generate_ok ==
  faded(generate_sweep(QInt(800), QInt(1200), Q(8, 100), FALSE), 5, 5)

_generate_ng ==
  faded(generate_sweep(QInt(600), QInt(300), Q(15, 100), FALSE), 5, 10)

_generate_warn == beeps(generate_sine_wave(QInt(1000), Q(5, 100)), 2, 50)

\* the recipe of crit with a gap of 300 ms
_generate_crit_long_gap ==
  beeps(generate_sine_wave(QInt(400), Q(5, 100)), 3, 300)

_generate_crit == beeps(generate_sine_wave(QInt(400), Q(5, 100)), 3, 30)

_generate_moo ==
  faded(generate_sweep(QInt(200), QInt(400), Q(15, 100), FALSE), 10, 10)

_generate_mew ==
  faded(generate_sweep(QInt(1500), QInt(2000), Q(10, 100), FALSE), 5, 5)

_generate_scan_ok == faded(generate_sine_wave(QInt(1500), Q(5, 100)), 2, 3)

_generate_scan_ng == faded(generate_sine_wave(QInt(300), Q(8, 100)), 3, 5)

\* name and generator of each SoundConfig (descriptions are display text)
SOUND_CONFIGS ==
  [t \in SoundType |->
     [name |-> t,
      generator |->
        CASE t = "ok" -> _generate_ok
          [] t = "ng" -> _generate_ng
          [] t = "warn" -> _generate_warn
          [] t = "crit" -> _generate_crit
          [] t = "moo" -> _generate_moo
          [] t = "mew" -> _generate_mew
          [] t = "scan_ok" -> _generate_scan_ok
          [] t = "scan_ng" -> _generate_scan_ng]]

generate_sound(sound_type) ==
  IF sound_type \notin DOMAIN SOUND_CONFIGS THEN Raise("ValueError")
  ELSE SOUND_CONFIGS[sound_type].generator

----------------------------------------------------------------------------
(* src/utils/wav_writer.py *)

\* a path is the sequence of its components
parent(path) == SubSeq(path, 1, Len(path) - 1)

\* Path.mkdir(parents=True, exist_ok=True)
mkdir(dirs, d) == dirs \cup {SubSeq(d, 1, k) : k \in 1..Len(d)}

Absent == [kind |-> "absent"]
\* what an interrupted write leaves behind
Partial == [kind |-> "partial"]

\* np.clip(samples, -1.0, 1.0)
np_clip(samples) ==
  [i \in 1..Len(samples) |->
     IF QLt(samples[i], QInt(-1)) THEN QInt(-1)
     ELSE IF QLt(QInt(1), samples[i]) THEN QInt(1)
     ELSE samples[i]]

\* .astype(np.int16): truncation toward zero, then the low 16 bits
astype_int16(x) == ((Trunc(x) + 32768) % 65536) - 32768

\* the conversion without the clipping
int_samples_unclipped(samples) ==
  [i \in 1..Len(samples) |->
     astype_int16(QMul(samples[i], QInt(MAX_AMPLITUDE)))]

\* int_samples = (clipped * MAX_AMPLITUDE).astype(np.int16)
int_samples_of(samples) ==
  LET clipped == np_clip(samples)
  IN [i \in 1..Len(clipped) |->
        astype_int16(QMul(clipped[i], QInt(MAX_AMPLITUDE)))]

\* int32 samples: four bytes each
tobytes_int32(ints) ==
  [k \in 1..(4 * Len(ints)) |->
     LET v == ints[(k + 3) \div 4]
         u == v % 65536
         j == (k - 1) % 4
     IN IF j = 0 THEN u % 256
        ELSE IF j = 1 THEN u \div 256
        ELSE IF v < 0 THEN 255 ELSE 0]

\* int_samples.tobytes(): two bytes per sample, little endian, two's complement
tobytes(ints) ==
  [k \in 1..(2 * Len(ints)) |->
     LET u == ints[(k + 1) \div 2] % 65536
     IN IF k % 2 = 1 THEN u % 256 ELSE u \div 256]

\* lines 31-48: create the directory, convert, write the file.
\* io names the step at which the operating system fails, if any.
write_wav(f, samples, output_path, io) ==
  IF io = "mkdir" THEN [fs |-> f, err |-> "OSError", val |-> <<>>]
  ELSE LET dirs1 == mkdir(f.dirs, parent(output_path))
           int_samples == int_samples_of(samples)
           file == [kind |-> "wav",
                    nchannels |-> CHANNELS,
                    sampwidth |-> BIT_DEPTH \div 8,
                    framerate |-> SAMPLE_RATE,
                    data |-> tobytes(int_samples)]
       IN IF io = "open"
          THEN [fs |-> [f EXCEPT !.dirs = dirs1],
                err |-> "OSError", val |-> <<>>]
          ELSE IF io = "write"
          THEN [fs |-> [dirs |-> dirs1,
                        files |-> [f.files EXCEPT ![output_path] = Partial]],
                err |-> "OSError", val |-> <<>>]
          ELSE [fs |-> [dirs |-> dirs1,
                        files |-> [f.files EXCEPT ![output_path] = file]],
                err |-> "none", val |-> output_path]

\* save_wav without the check of lines 28-29
save_wav_unchecked(f, samples, output_path, io) ==
  write_wav(f, samples, output_path, io)

save_wav(f, samples, output_path, io) ==
  IF Len(samples) = 0
  THEN [fs |-> f, err |-> "ValueError", val |-> <<>>]
  ELSE write_wav(f, samples, output_path, io)

get_wav_info(f, file_path) ==
  LET file == f.files[file_path]
  IN IF file.kind = "absent" THEN Raise("OSError")
     ELSE IF file.kind = "partial" THEN Raise("wave.Error")
     ELSE LET n_frames == Len(file.data) \div (file.nchannels * file.sampwidth)
              frame_rate == file.framerate
          IN Return([channels |-> file.nchannels,
                     sample_width |-> file.sampwidth,
                     frame_rate |-> frame_rate,
                     n_frames |-> n_frames,
                     duration_sec |-> Q(n_frames, frame_rate)])

----------------------------------------------------------------------------
(* Inputs *)

\* sample values the caller's arrays are cut from: in range, on the range
\* limits and outside the range
Palette ==
  <<QInt(2), Q(-1, 2), QInt(1), QInt(-2), Q(1, 2), QInt(-1), Q(1, 4),
    Q(-3, 4), Q(3, 4)>>

\* caller-supplied arrays: the windows of at most MaxLen samples of the
\* palette repeated, and the empty array
Signals ==
  {<<>>} \cup
  {[i \in 1..n |-> Palette[((s + i - 2) % Len(Palette)) + 1]] :
     s \in 1..Len(Palette), n \in 1..MaxLen}

\* a second array, for calls that take a list of arrays
SecondSignals == {<<>>, <<Q(-1, 4), Q(3, 4)>>}

\* frequencies in Hz and duty ratios
FreqVals == {QInt(-100), QInt(0), QInt(4000), QInt(6000)}
DutyVals == {Q(-1, 10), QInt(0), Q(1, 4), Q(1, 2), QInt(1), Q(3, 2)}

\* durations in seconds: negative, zero, and 1/4, 1, 3/2, 8/5 and 4 sample
\* periods
DurVals ==
  {Q(-1, 10), QInt(0), Q(1, 64000), Q(1, 16000), Q(3, 32000), Q(1, 10000),
   Q(1, 4000)}

\* milliseconds: negative, zero, and 4/5, 1, 3/2, 2 and 3 sample periods
MsVals ==
  {QInt(-1), QInt(0), Q(1, 20), Q(1, 16), Q(3, 32), Q(1, 8), Q(3, 16)}

\* milliseconds of the ADSR phases: -1, 0, 1, 2 and 5 sample periods
AdsrMsVals == {Q(-1, 16), QInt(0), Q(1, 16), Q(1, 8), Q(5, 16)}
SustainVals == {Q(-1, 10), QInt(0), Q(1, 2), QInt(1), Q(3, 2)}

\* lists of array ids passed to concatenate_with_silence
SegmentLists == {<<>>, <<1>>, <<1, 2>>, <<2, 1>>, <<1, 1, 1>>, <<1, 2, 1>>}

\* sound_type arguments: the eight identities and an unknown one
SoundArgs == SoundType \cup {"beep"}

\* destinations: in the existing directory and in a directory to be created
Paths == {<<"tmp", "test.wav">>, <<"tmp", "subdir", "test.wav">>}

\* the step of save_wav at which the operating system fails, if any
IoOutcomes == {"ok", "mkdir", "open", "write"}

\* a file that is already at a destination: stereo, 8 bit, 8000 Hz, 3 frames
OldFile ==
  [kind |-> "wav", nchannels |-> 2, sampwidth |-> 1, framerate |-> 8000,
   data |-> <<1, 2, 3, 4, 5, 6>>]

NoFiles == [p \in Paths |-> Absent]

\* file systems the program starts in
InitialFs ==
  {[dirs |-> {<<"tmp">>}, files |-> NoFiles],
   [dirs |-> {<<"tmp">>},
    files |-> [NoFiles EXCEPT ![<<"tmp", "test.wav">>] = OldFile]],
   [dirs |-> {<<"tmp">>, <<"tmp", "subdir">>},
    files |-> [NoFiles EXCEPT ![<<"tmp", "subdir", "test.wav">>] = OldFile]]}

NoCall == [op |-> "none", args |-> <<>>, ret |-> 0, err |-> "none"]

\* no command of the command line is involved
NoCommand == [pc |-> "none"]

\* the catalog before the module of the commands is loaded
NotImported == <<>>

\* written[p]: the samples of the last successful save_wav to p, while the
\* file at p is still the one that call wrote
NotWritten == [valid |-> FALSE, samples |-> <<>>]

----------------------------------------------------------------------------
(* The generator library: one call of one function on the caller's arrays *)

Init ==
  /\ heap \in {<<a, b>> : a \in Signals, b \in SecondSignals}
  /\ call = NoCall
  /\ fs \in {f \in InitialFs : \A p \in Paths : f.files[p] = Absent}
  /\ written = [p \in Paths |-> NotWritten]
  /\ cli = NoCommand
  /\ workers = <<>>
  /\ catalog = NotImported

\* the generators return a new array: it enters the caller's heap
Returns(op, args, r) ==
  /\ heap' = IF r.err = "none" THEN Append(heap, r.val) ELSE heap
  /\ call' = [op |-> op, args |-> args,
              ret |-> IF r.err = "none" THEN Len(heap) + 1 ELSE 0,
              err |-> r.err]
  /\ UNCHANGED <<fs, written, cli, workers, catalog>>

\* the envelope functions work on arrays of the heap
ReturnsOnHeap(op, args, r) ==
  /\ heap' = r.heap
  /\ call' = [op |-> op, args |-> args, ret |-> r.ret, err |-> r.err]
  /\ UNCHANGED <<fs, written, cli, workers, catalog>>

CallSine ==
  \E f \in FreqVals, d \in DurVals :
    /\ call.op = "none"
    /\ Returns("generate_sine_wave", [frequency |-> f, duration |-> d],
               generate_sine_wave(f, d))

CallSquare ==
  \E f \in FreqVals, d \in DurVals, duty \in DutyVals :
    /\ call.op = "none"
    /\ Returns("generate_square_wave",
               [frequency |-> f, duration |-> d, duty |-> duty],
               generate_square_wave(f, d, duty))

CallSawtooth ==
  \E f \in FreqVals, d \in DurVals :
    /\ call.op = "none"
    /\ Returns("generate_sawtooth_wave", [frequency |-> f, duration |-> d],
               generate_sawtooth_wave(f, d))

CallSweep ==
  \E s \in FreqVals, e \in FreqVals, d \in DurVals, lg \in BOOLEAN :
    /\ call.op = "none"
    /\ Returns("generate_sweep",
               [start_freq |-> s, end_freq |-> e, duration |-> d,
                logarithmic |-> lg],
               generate_sweep(s, e, d, lg))

CallGenerateSound ==
  \E t \in SoundArgs :
    /\ call.op = "none"
    /\ Returns("generate_sound", [sound_type |-> t], generate_sound(t))

CallFade ==
  \E fi \in MsVals, fo \in MsVals :
    /\ call.op = "none"
    /\ ReturnsOnHeap("apply_fade",
                     [samples |-> 1, fade_in_ms |-> fi, fade_out_ms |-> fo],
                     apply_fade(heap, 1, fi, fo))

CallAdsr ==
  \E a \in AdsrMsVals, d \in AdsrMsVals, s \in SustainVals, rl \in AdsrMsVals :
    /\ call.op = "none"
    /\ ReturnsOnHeap("apply_adsr",
                     [samples |-> 1, attack_ms |-> a, decay_ms |-> d,
                      sustain_level |-> s, release_ms |-> rl],
                     apply_adsr(heap, 1, a, d, s, rl))

CallConcatenate ==
  \E segs \in SegmentLists, ms \in MsVals :
    /\ call.op = "none"
    /\ ReturnsOnHeap("concatenate_with_silence",
                     [segments |-> segs, silence_ms |-> ms],
                     concatenate_with_silence(heap, segs, ms))

Next ==
  \/ CallSine
  \/ CallSquare
  \/ CallSawtooth
  \/ CallSweep
  \/ CallGenerateSound
  \/ CallFade
  \/ CallAdsr
  \/ CallConcatenate

Spec == Init /\ [][Next]_vars

----------------------------------------------------------------------------
(* The WAV writer: calls of save_wav and get_wav_info on one file system *)

InitWav ==
  /\ heap \in {<<a>> : a \in Signals}
  /\ call = NoCall
  /\ fs \in InitialFs
  /\ written = [p \in Paths |-> NotWritten]
  /\ cli = NoCommand
  /\ workers = <<>>
  /\ catalog = NotImported

SaveWav ==
  \E p \in Paths, io \in IoOutcomes :
    LET r == save_wav(fs, heap[1], p, io)
    IN /\ fs' = r.fs
       /\ call' = [op |-> "save_wav",
                   args |-> [samples |-> 1, output_path |-> p],
                   ret |-> r.val, err |-> r.err]
       /\ written' =
            IF r.err = "none"
            THEN [written EXCEPT ![p] = [valid |-> TRUE, samples |-> heap[1]]]
            ELSE IF r.fs.files[p] # fs.files[p]
            THEN [written EXCEPT ![p] = NotWritten]
            ELSE written
       /\ UNCHANGED <<heap, cli, workers, catalog>>

GetWavInfo ==
  \E p \in Paths :
    LET r == get_wav_info(fs, p)
    IN /\ call' = [op |-> "get_wav_info", args |-> [file_path |-> p],
                   ret |-> r.val, err |-> r.err]
       /\ UNCHANGED <<heap, fs, written, cli, workers, catalog>>

NextWav == SaveWav \/ GetWavInfo

SpecWav == InitWav /\ [][NextWav]_vars

----------------------------------------------------------------------------
(* src/cli/commands.py *)

\* for sound_type in SoundType: the order of the enumeration
SoundOrder ==
  <<"ok", "ng", "warn", "crit", "moo", "mew", "scan_ok", "scan_ng">>

DEFAULT_OUTPUT_DIR == <<"assets">>

\* every identity written to the path of "ok"
output_path_shared(output_dir, sound) == Append(output_dir, "ok")

\* output_dir / f"{sound.value}.wav": the last component is named by the
\* identity
output_path_of(output_dir, sound) == Append(output_dir, sound)

\* output_path.exists()
exists(f, path) == f.files[path].kind # "absent"

\* the existence check left out
keeps_existing_never(f, output_path, force) == FALSE

\* if output_path.exists() and not force
keeps_existing(f, output_path, force) == exists(f, output_path) /\ ~force

\* the file save_wav writes for the samples of a catalog sound.  A recipe
\* takes no input, so the samples, and the bytes int_samples_of and tobytes
\* make of them, are fixed by the identity: the file is named by it
wav_file_of(sound) == [kind |-> "wav", samples |-> sound]

\* what the commands look at in the result r of generate_sound: the
\* exception, and the number of samples
outcome_of(r) == [err |-> r.err, len |-> Len(r.val)]

\* the catalog the commands import (line 15): a recipe takes no input, so
\* each generator is held as what generate_sound gives for its identity
imported_sounds == [t \in SoundType |-> outcome_of(generate_sound(t))]

\* samples = generate_sound(sound); save_wav(samples, output_path).
\* io names the step at which the operating system fails, if any.
generate_and_save(f, sounds, sound, output_path, io) ==
  LET samples == sounds[sound]
  IN IF samples.err # "none" THEN [fs |-> f, err |-> samples.err]
     ELSE IF samples.len = 0 THEN [fs |-> f, err |-> "ValueError"]
     ELSE IF io = "mkdir" THEN [fs |-> f, err |-> "OSError"]
     ELSE LET dirs1 == mkdir(f.dirs, parent(output_path))
          IN IF io = "open"
             THEN [fs |-> [f EXCEPT !.dirs = dirs1], err |-> "OSError"]
             ELSE IF io = "write"
             THEN [fs |-> [dirs |-> dirs1,
                           files |-> [f.files EXCEPT ![output_path] = Partial]],
                   err |-> "OSError"]
             ELSE [fs |-> [dirs |-> dirs1,
                           files |-> [f.files EXCEPT
                                        ![output_path] = wav_file_of(sound)]],
                   err |-> "none"]

\* the command generate: the file system after it, its exit status and
\* what it did
generate(f, sounds, sound_type, output_dir, force, io) ==
  IF sound_type \notin SoundType
  THEN [fs |-> f, code |-> 1, outcome |-> "unknown"]
  ELSE LET output_path == output_path_of(output_dir, sound_type)
       IN IF keeps_existing(f, output_path, force)
          THEN [fs |-> f, code |-> 1, outcome |-> "exists"]
          ELSE LET r == generate_and_save(f, sounds, sound_type, output_path, io)
               IN IF r.err = "none"
                  THEN [fs |-> r.fs, code |-> 0, outcome |-> "success"]
                  ELSE IF r.err = "OSError"
                  THEN [fs |-> r.fs, code |-> 1, outcome |-> "error"]
                  \* an exception that is not caught ends the process
                  ELSE [fs |-> r.fs, code |-> 1, outcome |-> "crash"]

\* one pass of the loop of generate_all, on sound_type: the file system
\* after it and what it counted
generate_all_iteration(f, sounds, sound_type, output_dir, force, io) ==
  LET output_path == output_path_of(output_dir, sound_type)
  IN IF keeps_existing(f, output_path, force)
     THEN [fs |-> f, outcome |-> "skip"]
     ELSE LET r == generate_and_save(f, sounds, sound_type, output_path, io)
          IN IF r.err = "none" THEN [fs |-> r.fs, outcome |-> "success"]
             ELSE IF r.err = "OSError" THEN [fs |-> r.fs, outcome |-> "error"]
             ELSE [fs |-> r.fs, outcome |-> "crash"]

\* the exit status that never reports the errors
exit_code_never_fails(error_count) == 0

\* if error_count > 0: raise typer.Exit(code=1)
exit_code_of(error_count) == IF error_count > 0 THEN 1 ELSE 0

\* the paths of the eight identities in the output directory
CliPaths == {output_path_of(DEFAULT_OUTPUT_DIR, t) : t \in SoundType}

\* a file that was in the output directory before the program ran
OtherFile == [kind |-> "wav", samples |-> "other"]

\* output directories the commands start on: missing, and holding two
\* files of another origin
InitialCliFs ==
  {[dirs |-> {}, files |-> [p \in CliPaths |-> Absent]],
   [dirs |-> {DEFAULT_OUTPUT_DIR},
    files |-> [p \in CliPaths |->
                 IF p[2] \in {"ok", "crit"} THEN OtherFile ELSE Absent]]}

\* no command has been invoked yet
IdleCli ==
  [pc |-> "idle", cmd |-> "none", force |-> FALSE, pos |-> 0,
   success_count |-> 0, skip_count |-> 0, error_count |-> 0,
   code |-> 0, log |-> <<>>, runs |-> 0, faults |-> 0]

----------------------------------------------------------------------------
(* The command line: generate and generate-all, invoked one after the     *)
(* other on one output directory                                          *)

InitCli ==
  /\ heap = <<>>
  /\ call = NoCall
  /\ fs \in InitialCliFs
  /\ written = <<>>
  /\ cli = IdleCli
  /\ workers = <<>>
  /\ catalog = NotImported

\* from src.generator.sounds import SOUND_CONFIGS, generate_sound
ImportSounds ==
  /\ catalog = NotImported
  /\ catalog' = imported_sounds
  /\ UNCHANGED <<heap, call, fs, written, cli, workers>>

\* the operating system fails only where the command reaches it, and at
\* most MaxFaults times
FaultAllowed(io, outcome) ==
  io # "ok" => (outcome = "error" /\ cli.faults < MaxFaults)

Generate ==
  \E sound_type \in SoundArgs, force \in BOOLEAN, io \in IoOutcomes :
    LET r == generate(fs, catalog, sound_type, DEFAULT_OUTPUT_DIR, force, io)
    IN /\ catalog # NotImported
       /\ cli.pc = "idle"
       /\ cli.runs < MaxRuns
       /\ FaultAllowed(io, r.outcome)
       /\ fs' = r.fs
       /\ cli' = [IdleCli EXCEPT
                    !.cmd = "generate", !.force = force, !.code = r.code,
                    !.log = <<[sound |-> sound_type, outcome |-> r.outcome]>>,
                    !.runs = cli.runs + 1,
                    !.faults = cli.faults + IF io = "ok" THEN 0 ELSE 1]
       /\ UNCHANGED <<heap, call, written, workers, catalog>>

\* lines 123-135: the counters are set to 0 and the loop is entered
GenerateAllStart ==
  \E force \in BOOLEAN :
    /\ catalog # NotImported
    /\ cli.pc = "idle"
    /\ cli.runs < MaxRuns
    /\ cli' = [IdleCli EXCEPT
                 !.pc = "loop", !.cmd = "generate_all", !.force = force,
                 !.pos = 1, !.code = -1,
                 !.runs = cli.runs + 1, !.faults = cli.faults]
    /\ UNCHANGED <<heap, call, fs, written, workers, catalog>>

\* lines 137-165: one pass of the loop
GenerateAllStep ==
  \E io \in IoOutcomes :
    /\ cli.pc = "loop"
    /\ cli.pos <= Len(SoundOrder)
    /\ LET sound_type == SoundOrder[cli.pos]
           r == generate_all_iteration(fs, catalog, sound_type,
                                       DEFAULT_OUTPUT_DIR, cli.force, io)
           entry == [sound |-> sound_type, outcome |-> r.outcome]
       IN /\ FaultAllowed(io, r.outcome)
          /\ fs' = r.fs
          /\ cli' =
               IF r.outcome = "crash"
               THEN [cli EXCEPT !.pc = "idle", !.code = 1,
                                !.log = Append(@, entry)]
               ELSE [cli EXCEPT
                       !.pos = @ + 1,
                       !.log = Append(@, entry),
                       !.skip_count =
                          @ + IF r.outcome = "skip" THEN 1 ELSE 0,
                       !.success_count =
                          @ + IF r.outcome = "success" THEN 1 ELSE 0,
                       !.error_count =
                          @ + IF r.outcome = "error" THEN 1 ELSE 0,
                       !.faults = @ + IF io = "ok" THEN 0 ELSE 1]
    /\ UNCHANGED <<heap, call, written, workers, catalog>>

\* lines 167-177: the result summary and the exit status
GenerateAllSummary ==
  /\ cli.pc = "loop"
  /\ cli.pos > Len(SoundOrder)
  /\ cli' = [cli EXCEPT !.pc = "idle", !.code = exit_code_of(cli.error_count)]
  /\ UNCHANGED <<heap, call, fs, written, workers, catalog>>

NextCli ==
  \/ ImportSounds
  \/ Generate
  \/ GenerateAllStart
  \/ GenerateAllStep
  \/ GenerateAllSummary

SpecCli == InitCli /\ [][NextCli]_vars

----------------------------------------------------------------------------
(* Generation and encoding of several identities in parallel: each worker  *)
(* runs samples = generate_sound(t); save_wav(samples, output_dir/t.wav),  *)
(* and the steps of the workers interleave at the file system calls        *)

\* the identities worked on in parallel
ParallelSounds == {SoundOrder[i] : i \in 1..NumWorkers}

InitPar ==
  /\ heap = <<>>
  /\ call = NoCall
  /\ fs \in InitialCliFs
  /\ written = <<>>
  /\ cli = NoCommand
  /\ workers = [t \in ParallelSounds |->
                  [pc |-> "generate", samples |-> "none",
                   output_path |-> output_path_of(DEFAULT_OUTPUT_DIR, t)]]
  /\ catalog = NotImported

\* samples = generate_sound(t); save_wav: if len(samples) == 0: raise
WorkerGenerate(t) ==
  /\ catalog # NotImported
  /\ workers[t].pc = "generate"
  /\ workers' =
       [workers EXCEPT
          ![t].samples = t,
          ![t].pc = IF catalog[t].err # "none" \/ catalog[t].len = 0
                    THEN "failed" ELSE "mkdir"]
  /\ UNCHANGED <<heap, call, fs, written, cli, catalog>>

\* output_path.parent.mkdir(parents=True, exist_ok=True)
WorkerMkdir(t) ==
  /\ workers[t].pc = "mkdir"
  /\ fs' = [fs EXCEPT !.dirs = mkdir(@, parent(workers[t].output_path))]
  /\ workers' = [workers EXCEPT ![t].pc = "open"]
  /\ UNCHANGED <<heap, call, written, cli, catalog>>

\* wave.open(str(output_path), "wb"): the file is created, or cut to nothing
WorkerOpen(t) ==
  /\ workers[t].pc = "open"
  /\ IF parent(workers[t].output_path) \in fs.dirs
     THEN /\ fs' = [fs EXCEPT !.files[workers[t].output_path] = Partial]
          /\ workers' = [workers EXCEPT ![t].pc = "write"]
     ELSE /\ fs' = fs
          /\ workers' = [workers EXCEPT ![t].pc = "failed"]
  /\ UNCHANGED <<heap, call, written, cli, catalog>>

\* writeframes(int_samples.tobytes()) and the close of the file
WorkerWrite(t) ==
  /\ workers[t].pc = "write"
  /\ fs' = [fs EXCEPT !.files[workers[t].output_path] =
                        wav_file_of(workers[t].samples)]
  /\ workers' = [workers EXCEPT ![t].pc = "done"]
  /\ UNCHANGED <<heap, call, written, cli, catalog>>

NextPar ==
  \/ ImportSounds
  \/ \E t \in ParallelSounds :
       \/ WorkerGenerate(t)
       \/ WorkerMkdir(t)
       \/ WorkerOpen(t)
       \/ WorkerWrite(t)

SpecPar == InitPar /\ [][NextPar]_vars

----------------------------------------------------------------------------
(* Properties of the generator library (Spec) *)

\* the array a successful call returned
Returned == heap[call.ret]

WaveOps ==
  {"generate_sine_wave", "generate_square_wave", "generate_sawtooth_wave",
   "generate_sweep"}

Positive(x) == x[2] > 0 /\ x[1] > 0

\* whole samples in ms milliseconds, none for ms <= 0
SamplesIn(ms) ==
  IF Positive(ms) THEN (SAMPLE_RATE * ms[1]) \div (1000 * ms[2]) ELSE 0

\* the arguments of a generator call that the claims call valid
ValidWaveArgs ==
  /\ Positive(call.args.duration)
  /\ IF call.op = "generate_sweep"
     THEN Positive(call.args.start_freq) /\ Positive(call.args.end_freq)
     ELSE Positive(call.args.frequency)
  /\ call.op = "generate_square_wave" =>
       /\ Positive(call.args.duty)
       /\ call.args.duty[1] < call.args.duty[2]

\* C1: each of the 8 sound identities is generated without error, and the
\* signal is non-empty and lasts between 0.05 s and 0.25 s (len / 16000).
C1_CatalogDuration ==
  (call.op = "generate_sound" /\ call.args.sound_type \in SoundType) =>
    /\ call.err = "none"
    /\ call.ret \in DOMAIN heap
    /\ Len(Returned) > 0
    /\ 5 * SAMPLE_RATE <= 100 * Len(Returned)
    /\ 100 * Len(Returned) <= 25 * SAMPLE_RATE

\* crit has been generated: three beeps and two gaps, more than 0.20 s
C1_Witness ==
  /\ call.op = "generate_sound"
  /\ call.args.sound_type = "crit"
  /\ call.err = "none"
  /\ Len(Returned) = 3 * 800 + 2 * 480

\* C2 as stated: for valid arguments each generator returns exactly
\* round(sample_rate * duration) samples.
C2_RoundedLength ==
  (call.op \in WaveOps /\ ValidWaveArgs) =>
    /\ call.err = "none"
    /\ Len(Returned) = Round(QMul(QInt(SAMPLE_RATE), call.args.duration))

\* C2 amended: for valid arguments each generator returns exactly
\* int(sample_rate * duration) samples, the product truncated: the length n
\* satisfies n <= sample_rate * duration < n + 1.
C2_TruncatedLength ==
  (call.op \in WaveOps /\ ValidWaveArgs) =>
    /\ call.err = "none"
    /\ call.ret \in DOMAIN heap
    /\ LET n == Len(Returned)
           d == call.args.duration
       IN /\ n * d[2] <= SAMPLE_RATE * d[1]
          /\ SAMPLE_RATE * d[1] < (n + 1) * d[2]

\* a generator returned for a duration of 1.6 sample periods: one sample,
\* where rounding gives two
C2_Witness ==
  /\ call.op \in WaveOps
  /\ ValidWaveArgs
  /\ call.args.duration = Q(1, 10000)
  /\ call.err = "none"
  /\ Len(Returned) = 1

\* the arguments the validation of each function must reject
MustFail ==
  CASE call.op \in {"generate_sine_wave", "generate_sawtooth_wave"} ->
         ~Positive(call.args.frequency) \/ ~Positive(call.args.duration)
    [] call.op = "generate_square_wave" ->
         \/ ~Positive(call.args.frequency)
         \/ ~Positive(call.args.duration)
         \/ ~Positive(call.args.duty)
         \/ call.args.duty[1] >= call.args.duty[2]
    [] call.op = "generate_sweep" ->
         \/ ~Positive(call.args.start_freq)
         \/ ~Positive(call.args.end_freq)
         \/ ~Positive(call.args.duration)
    [] call.op = "apply_adsr" ->
         \/ call.args.sustain_level[1] < 0
         \/ call.args.sustain_level[1] > call.args.sustain_level[2]

\* C6: sine, square, sawtooth, sweep and adsr raise the invalid-argument
\* error exactly on the arguments their validation excludes (duty 0 and 1
\* are rejected, sustain_level 0 and 1 are accepted); a failing call returns
\* no signal and leaves no array behind, any other call returns a signal.
C6_ExactValidation ==
  (call.op \in WaveOps \cup {"apply_adsr"}) =>
    /\ (call.err = "ValueError") <=> MustFail
    /\ call.err \in {"none", "ValueError"}
    /\ call.err = "ValueError" => call.ret = 0 /\ Len(heap) = 2
    /\ call.err = "none" => call.ret = 3 /\ Len(heap) = 3

\* a square wave was refused for a duty of exactly 1, all else being valid
C6_Witness ==
  /\ call.op = "generate_square_wave"
  /\ Positive(call.args.frequency)
  /\ Positive(call.args.duration)
  /\ call.args.duty = QInt(1)
  /\ call.err = "ValueError"

\* total length of the first j arrays of a list
RECURSIVE SumLen(_, _)
SumLen(arrays, j) ==
  IF j = 0 THEN 0 ELSE SumLen(arrays, j - 1) + Len(arrays[j])

\* result is the arrays in their order with z zero samples between every two
\* neighbours and nowhere else
Interleaved(result, arrays, z) ==
  LET k == Len(arrays)
      off(j) == SumLen(arrays, j - 1) + (j - 1) * z
  IN /\ Len(result) = IF k = 0 THEN 0 ELSE SumLen(arrays, k) + (k - 1) * z
     /\ \A j \in 1..k : \A i \in 1..Len(arrays[j]) :
          result[off(j) + i] = arrays[j][i]
     /\ \A j \in 1..(k - 1) : \A i \in 1..z :
          result[off(j) + Len(arrays[j]) + i] = QInt(0)

\* the arrays passed to the last call of concatenate_with_silence
PassedSegments ==
  [j \in 1..Len(call.args.segments) |-> heap[call.args.segments[j]]]

\* C7 as stated: the result is the segments in order, separated (when
\* silence_ms > 0) by round(sample_rate * silence_ms / 1000) zero samples.
C7_RoundedGaps ==
  call.op = "concatenate_with_silence" =>
    /\ call.err = "none"
    /\ LET ms == call.args.silence_ms
           z == IF Positive(ms)
                THEN Round(QDiv(QMul(QInt(SAMPLE_RATE), ms), QInt(1000)))
                ELSE 0
       IN Interleaved(Returned, PassedSegments, z)

\* C7 amended: the result is empty for no segments, and otherwise the
\* segments in order, separated (when silence_ms > 0) by
\* int(sample_rate * silence_ms / 1000) zero samples, the quotient
\* truncated; nothing precedes the first or follows the last segment.
C7_TruncatedGaps ==
  call.op = "concatenate_with_silence" =>
    /\ call.err = "none"
    /\ call.ret \in DOMAIN heap
    /\ LET ms == call.args.silence_ms
           z == SamplesIn(ms)
       IN Interleaved(Returned, PassedSegments, z)

\* three non-empty segments were joined with a gap of 1.5 sample periods:
\* one zero sample between neighbours, where rounding gives two
C7_Witness ==
  /\ call.op = "concatenate_with_silence"
  /\ call.args.segments = <<1, 2, 1>>
  /\ call.args.silence_ms = Q(3, 32)
  /\ Len(heap[1]) > 0
  /\ Len(heap[2]) > 0
  /\ Len(Returned) = 2 * Len(heap[1]) + Len(heap[2]) + 2

\* C8: apply_fade and apply_adsr leave every array that existed before the
\* call as it was, whatever the parameters; a call that fails changes
\* nothing, a call that succeeds returns a new array as long as its input.
C8_NoMutation ==
  [][call'.op \in {"apply_fade", "apply_adsr"} =>
       /\ \A id \in DOMAIN heap : heap'[id] = heap[id]
       /\ call'.err # "none" => heap' = heap
       /\ call'.err = "none" =>
            /\ call'.ret \notin DOMAIN heap
            /\ call'.ret \in DOMAIN heap'
            /\ Len(heap'[call'.ret]) = Len(heap[call'.args.samples])]_vars

\* a fade returned samples that differ from the ones it was given
C8_Witness ==
  /\ call.op = "apply_fade"
  /\ call.err = "none"
  /\ Len(heap[call.args.samples]) > 0
  /\ Returned # heap[call.args.samples]

\* number of samples a fade of ms milliseconds covers in n samples:
\* min(int(SAMPLE_RATE * ms / 1000), n // 2)
FadeLen(ms, n) == Min(SamplesIn(ms), n \div 2)

\* C9: when apply_fade fades in at least one sample the first output sample
\* is 0, and when it fades out at least one sample the last output sample
\* is 0.
C9_FadeEndPoints ==
  (call.op = "apply_fade" /\ call.err = "none") =>
    LET n == Len(heap[call.args.samples])
    IN /\ FadeLen(call.args.fade_in_ms, n) >= 1 => Returned[1] = QInt(0)
       /\ FadeLen(call.args.fade_out_ms, n) >= 1 =>
            Returned[Len(Returned)] = QInt(0)

\* samples covered by the release of the last apply_adsr call: what is left
\* of the n samples after attack and decay, at most release_samples
ReleaseLen ==
  LET n == Len(heap[call.args.samples])
      a == SamplesIn(call.args.attack_ms)
      d == SamplesIn(call.args.decay_ms)
      r == SamplesIn(call.args.release_ms)
  IN Min(r, Max(0, n - a - d))

NonNegativeDurations ==
  /\ call.args.attack_ms[1] >= 0
  /\ call.args.decay_ms[1] >= 0
  /\ call.args.release_ms[1] >= 0

ValidSquareCall == call.op = "generate_square_wave" /\ ValidWaveArgs

\* (frequency * t_i) mod 1 < duty for the 1-based sample i, t_i = (i-1)/16000
PhaseBelowDuty(i) ==
  LET f == call.args.frequency
      duty == call.args.duty
      turn == f[2] * SAMPLE_RATE
  IN ((f[1] * (i - 1)) % turn) * duty[2] < duty[1] * turn

PhaseRanges ==
  adsr_ranges(Len(heap[call.args.samples]),
              ms_to_samples(call.args.attack_ms),
              ms_to_samples(call.args.decay_ms),
              ms_to_samples(call.args.release_ms))

PhaseNames == {"attack", "decay", "sustain", "release"}

\* the 1-based index i lies in the slice <<pos, end>>
InRange(i, rg) == rg[1] < i /\ i <= rg[2]

InUnitRange(arr) ==
  \A i \in 1..Len(arr) :
    arr[i][2] > 0 /\ -arr[i][2] <= arr[i][1] /\ arr[i][1] <= arr[i][2]

\* |x| <= |y|
NoLouder(x, y) == x[2] > 0 /\ y[2] > 0 /\ Abs(x[1]) * y[2] <= Abs(y[1]) * x[2]

\* the multiplier of the 1-based sample i of n under a fade-in over the
\* first k1 and a fade-out over the last k2 samples, each ramp applied alone
FadeFactor(i, n, k1, k2) ==
  IF i <= k1 THEN (IF k1 = 1 THEN QInt(0) ELSE Q(i - 1, k1 - 1))
  ELSE IF i > n - k2 THEN (IF k2 = 1 THEN QInt(1) ELSE Q(n - i, k2 - 1))
  ELSE QInt(1)

\* C13: apply_fade, apply_adsr and concatenate_with_silence return samples
\* in [-1, 1] when every input sample lies in [-1, 1], and so does every
\* catalog sound.  In apply_fade the two ramps cover disjoint index ranges
\* (each at most len // 2 samples), so every sample is scaled by one ramp
\* value in [0, 1] or left alone; fade and ADSR never make a sample louder.
C13_RangePreserved ==
  /\ (call.op = "apply_fade" /\ call.err = "none") =>
       LET in == heap[call.args.samples]
           n == Len(in)
           k1 == FadeLen(call.args.fade_in_ms, n)
           k2 == FadeLen(call.args.fade_out_ms, n)
       IN /\ k1 + k2 <= n
          /\ Len(Returned) = n
          /\ \A i \in 1..n :
               /\ Returned[i] = QMul(in[i], FadeFactor(i, n, k1, k2))
               /\ NoLouder(Returned[i], in[i])
          /\ InUnitRange(in) => InUnitRange(Returned)
  /\ (call.op = "apply_adsr" /\ call.err = "none") =>
       LET in == heap[call.args.samples]
       IN /\ \A i \in 1..Len(in) : NoLouder(Returned[i], in[i])
          /\ InUnitRange(in) => InUnitRange(Returned)
  /\ (call.op = "concatenate_with_silence" /\ call.err = "none") =>
       ((\A j \in 1..Len(PassedSegments) : InUnitRange(PassedSegments[j]))
          => InUnitRange(Returned))
  /\ (call.op = "generate_sound" /\ call.err = "none") =>
       InUnitRange(Returned)

\* five samples in [-1, 1] were faded in and out over three sample periods
\* each: both ramps are cut to two samples and the middle sample is kept
C13_Witness ==
  /\ call.op = "apply_fade"
  /\ call.err = "none"
  /\ call.args.fade_in_ms = Q(3, 16)
  /\ call.args.fade_out_ms = Q(3, 16)
  /\ Len(heap[call.args.samples]) = 5
  /\ InUnitRange(heap[call.args.samples])
  /\ InUnitRange(Returned)
  /\ Returned[1] = QInt(0)
  /\ Returned[5] = QInt(0)
  /\ \A i \in 2..4 : Returned[i] = heap[call.args.samples][i]

\* no sample of the array is NaN
Defined(arr) == \A i \in 1..Len(arr) : ~IsNaN(arr[i])

\* C14: generate_sweep in logarithmic mode with start_freq = end_freq
\* (positive, duration positive) either raises the invalid-argument error
\* or returns a signal without undefined samples, the sine of the constant
\* frequency.
C14_EqualFreqLogSweepDefined ==
  (/\ call.op = "generate_sweep"
   /\ ValidWaveArgs
   /\ call.args.logarithmic
   /\ call.args.start_freq = call.args.end_freq) =>
    \/ call.err = "ValueError"
    \/ /\ call.err = "none"
       /\ Defined(Returned)
       /\ Return(Returned) =
            generate_sine_wave(call.args.start_freq, call.args.duration)

\* C15: each of the 8 catalog sounds, silence gaps included, lasts at
\* least MIN_DURATION_SEC and at most MAX_DURATION_SEC:
\* 0.05 * 16000 <= len <= 0.20 * 16000.
C15_CatalogWithinLimits ==
  (call.op = "generate_sound" /\ call.args.sound_type \in SoundType) =>
    /\ call.err = "none"
    /\ Len(Returned) * MIN_DURATION_SEC[2] >= SAMPLE_RATE * MIN_DURATION_SEC[1]
    /\ Len(Returned) * MAX_DURATION_SEC[2] <= SAMPLE_RATE * MAX_DURATION_SEC[1]

----------------------------------------------------------------------------
(* Properties of the WAV writer (SpecWav) *)

\* C3: get_wav_info on a file written by save_wav reports 1 channel, a
\* sample width of 2, a frame rate of 16000, as many frames as the signal
\* had samples, and duration_sec = n_frames / frame_rate.
C3_RoundTrip ==
  (call.op = "get_wav_info" /\ written[call.args.file_path].valid) =>
    /\ call.err = "none"
    /\ call.ret.channels = 1
    /\ call.ret.sample_width = 2
    /\ call.ret.frame_rate = 16000
    /\ call.ret.n_frames = Len(written[call.args.file_path].samples)
    /\ call.ret.duration_sec[2] > 0
    /\ call.ret.duration_sec[1] * call.ret.frame_rate
         = call.ret.n_frames * call.ret.duration_sec[2]

\* the information of a file of several frames, written by save_wav over an
\* older file or into a new directory, has been read back
C3_Witness ==
  /\ call.op = "get_wav_info"
  /\ call.err = "none"
  /\ written[call.args.file_path].valid
  /\ call.ret.n_frames >= 2
  /\ call.ret.n_frames = Len(heap[1])

\* the 16-bit sample stored in two bytes, low byte first
Int16At(data, i) ==
  LET u == data[2 * i - 1] + 256 * data[2 * i]
  IN IF u >= 32768 THEN u - 65536 ELSE u

\* C4: save_wav does not refuse a signal for samples outside [-1, 1], and
\* every sample it writes lies in -32767..32767: a sample >= 1 is written as
\* 32767, a sample <= -1 as -32767, any other as 32767 times the sample
\* with the fraction dropped; -32768 is never written.
C4_ClippedQuantization ==
  /\ (call.op = "save_wav" /\ Len(heap[1]) > 0) => call.err # "ValueError"
  /\ \A p \in Paths :
       written[p].valid =>
         LET smp == written[p].samples
             data == fs.files[p].data
         IN /\ fs.files[p].kind = "wav"
            /\ Len(data) = 2 * Len(smp)
            /\ \A i \in 1..Len(smp) :
                 LET v == Int16At(data, i)
                     x == smp[i]
                 IN /\ -32767 <= v /\ v <= 32767
                    /\ x[1] >= x[2] => v = 32767
                    /\ x[1] <= -x[2] => v = -32767
                    /\ (-x[2] < x[1] /\ x[1] < x[2]) =>
                         /\ Abs(v) * x[2] <= 32767 * Abs(x[1])
                         /\ 32767 * Abs(x[1]) < (Abs(v) + 1) * x[2]
                         /\ (v > 0 => x[1] > 0) /\ (v < 0 => x[1] < 0)

\* a signal holding 2.0 and -2.0 has been saved
C4_Witness ==
  \E p \in Paths :
    /\ written[p].valid
    /\ \E i, j \in 1..Len(written[p].samples) :
         /\ written[p].samples[i] = QInt(2)
         /\ written[p].samples[j] = QInt(-2)
    /\ call.op = "save_wav"
    /\ call.err = "none"

\* C5: save_wav on an empty signal raises the empty-signal error and leaves
\* the file system as it was: no directory and no file is created or changed.
C5_EmptyRejectedFirst ==
  [][(call'.op = "save_wav" /\ Len(heap[call'.args.samples]) = 0) =>
       /\ call'.err = "ValueError"
       /\ fs' = fs]_vars

\* an empty signal was refused for a destination whose directory does not
\* exist, and neither the directory nor the file is there afterwards
C5_Witness ==
  /\ call.op = "save_wav"
  /\ Len(heap[call.args.samples]) = 0
  /\ call.err = "ValueError"
  /\ parent(call.args.output_path) \notin fs.dirs
  /\ fs.files[call.args.output_path] = Absent

----------------------------------------------------------------------------
(* Properties of the command line (SpecCli) *)

\* number of entries of the log with the outcome
RECURSIVE CountOf(_, _)
CountOf(entries, outcome) ==
  IF entries = <<>> THEN 0
  ELSE CountOf(Tail(entries), outcome)
       + IF Head(entries).outcome = outcome THEN 1 ELSE 0

\* generate-all has printed its result summary and exited
SummaryReached ==
  cli.cmd = "generate_all" /\ cli.pc = "idle" /\ cli.code \in {0, 1}

\* C16: while generate-all runs, the identities are visited in the order of
\* the enumeration, once each, and each visit is counted in exactly one of
\* success, skip and error; when the summary is reached all 8 have been
\* visited, success_count + skip_count + error_count = 8 even after errors,
\* and the exit status is 1 exactly when error_count > 0.
C16_BatchAccounting ==
  cli.cmd = "generate_all" =>
    /\ \A k \in 1..Len(cli.log) :
         /\ cli.log[k].sound = SoundOrder[k]
         /\ cli.log[k].outcome \in {"success", "skip", "error"}
    /\ cli.success_count = CountOf(cli.log, "success")
    /\ cli.skip_count = CountOf(cli.log, "skip")
    /\ cli.error_count = CountOf(cli.log, "error")
    /\ cli.success_count + cli.skip_count + cli.error_count = Len(cli.log)
    /\ cli.pc = "idle" =>
         /\ SummaryReached
         /\ Len(cli.log) = Len(SoundOrder)
         /\ cli.success_count + cli.skip_count + cli.error_count = 8
         /\ cli.code = 1 <=> cli.error_count > 0

\* a batch skipped the first identity, failed on the second, went on to
\* write the others and exited with status 1
C16_Witness ==
  /\ SummaryReached
  /\ cli.log[1].outcome = "skip"
  /\ cli.log[2].outcome = "error"
  /\ cli.log[3].outcome = "success"
  /\ cli.log[8].outcome = "success"
  /\ cli.error_count = 1
  /\ cli.code = 1

\* the path of an identity in the output directory
PathOf(t) == <<"assets", t>>

\* C17: a step of a command run without force leaves every file that
\* exists as it is; generate on an existing file without force exits with
\* status 1, generate-all counts it as skipped; with force the file is not
\* skipped, and a successful write leaves the regenerated file.
C17_NoOverwriteWithoutForce ==
  [][/\ \A t \in SoundType :
          (exists(fs, PathOf(t)) /\ ~cli'.force) =>
            fs'.files[PathOf(t)] = fs.files[PathOf(t)]
     /\ (cli'.cmd = "generate" /\ cli'.runs # cli.runs
           /\ cli'.log[1].sound \in SoundType) =>
          LET e == cli'.log[1]
              p == PathOf(e.sound)
          IN /\ (exists(fs, p) /\ ~cli'.force) =>
                  (cli'.code = 1 /\ fs' = fs /\ e.outcome = "exists")
             /\ (exists(fs, p) /\ cli'.force) => e.outcome # "exists"
             /\ e.outcome = "success" =>
                  (cli'.code = 0 /\ fs'.files[p] = wav_file_of(e.sound))
     /\ (cli.pc = "loop" /\ Len(cli'.log) = Len(cli.log) + 1) =>
          LET e == cli'.log[Len(cli'.log)]
              p == PathOf(e.sound)
          IN /\ (exists(fs, p) /\ ~cli.force) =>
                  /\ e.outcome = "skip"
                  /\ fs' = fs
                  /\ cli'.skip_count = cli.skip_count + 1
             /\ (exists(fs, p) /\ cli.force) => e.outcome # "skip"
             /\ e.outcome = "success" => fs'.files[p] = wav_file_of(e.sound)
    ]_vars

\* a second generate-all, without force, has ended on a directory that
\* holds all eight generated files: it skipped all eight
C17_Witness ==
  /\ SummaryReached
  /\ cli.runs = 2
  /\ ~cli.force
  /\ cli.skip_count = 8
  /\ cli.code = 0
  /\ \A t \in SoundType : fs.files[PathOf(t)] = wav_file_of(t)

----------------------------------------------------------------------------
(* Properties of the parallel workers (SpecPar) *)

\* the file of identity t after generate-and-encode has run alone on the
\* file system f
AloneFile(f, t) ==
  generate_and_save(f, catalog, t, PathOf(t), "ok").fs.files[PathOf(t)]

\* C18: under every interleaving of the workers, the catalog stays as it
\* was built, a step of one worker changes no file but its own
\* <identity>.wav and removes no directory, no worker fails, and a worker
\* that is done has left the file it leaves when run alone, whatever the
\* others have done.
C18_ParallelIndependence ==
  [][\A t \in ParallelSounds :
       /\ catalog # NotImported => catalog' = catalog
       /\ workers'[t].pc # "failed"
       /\ fs.dirs \subseteq fs'.dirs
       /\ workers'[t] # workers[t] =>
            \A p \in CliPaths :
              p # PathOf(t) => fs'.files[p] = fs.files[p]
       /\ workers'[t].pc = "done" =>
            /\ fs'.files[PathOf(t)] = AloneFile(fs, t)
            /\ fs'.files[PathOf(t)] = wav_file_of(t)]_vars

\* all workers are done on a directory that did not exist at the start
C18_Witness ==
  /\ DOMAIN workers = ParallelSounds
  /\ \A t \in ParallelSounds : workers[t].pc = "done"
  /\ \A t \in ParallelSounds : fs.files[PathOf(t)] = wav_file_of(t)
  /\ \A t \in SoundType \ ParallelSounds : fs.files[PathOf(t)] = Absent

====
